---- MODULE Spec2Model ----
(***************************************************************************)
(* Model of the Reddit live AI detector: the feed generator                *)
(* (reddit_stream.py), the text normaliser (utils.py), the classifier      *)
(* (classifier.py), the comment store (database.py) and the streaming loop *)
(* of the dashboard script (main.py).                                      *)
(*                                                                         *)
(* Texts are sequences of one-character strings.  Scores are percentages   *)
(* (0 stands for 0.0).                                                     *)
(***************************************************************************)
EXTENDS Integers, Sequences, FiniteSets, TLC

\* ------------------------------------------------------------------ bounds
\* longest text handed to predict on its own
MaxTextLen == 5
\* number of events the underlying comment feed delivers
MaxFeed == 3
\* number of insert_one calls the console and the pipeline make on the store
\* when the store is driven on its own
MaxInserts == 2
\* number of sessions of the application that call init_db
MaxSessions == 3
\* number of MongoClient objects constructed when init_db is driven on its own
MaxClients == 2

\* --------------------------------------------------------------- constants
WindowCap == 100

None == "None"

\* Python's None passed as a text: a value that is no sequence of characters
NoneText == <<"None">>
Chars == {"h", "t", "p", " ", "\n"}
Whitespace == {" ", "\n"}

Min(a, b) == IF a < b THEN a ELSE b

\* ------------------------------------------------------- utils.clean_text
IsSpace(c) == c \in Whitespace

\* text[i..i+3] = "http" followed by at least one non-whitespace character:
\* a match of the regular expression http\S+ starts at i.
UrlAt(text, i) ==
    /\ i + 4 <= Len(text)
    /\ text[i] = "h" /\ text[i+1] = "t" /\ text[i+2] = "t" /\ text[i+3] = "p"
    /\ ~IsSpace(text[i+4])

\* first index >= i holding whitespace, Len(text)+1 when there is none
RECURSIVE RunEnd(_, _)
RunEnd(text, i) ==
    IF i > Len(text) \/ IsSpace(text[i]) THEN i ELSE RunEnd(text, i + 1)

\* re.sub(r'http\S+', '', text): leftmost greedy matches removed
RECURSIVE RemoveUrlsFrom(_, _)
RemoveUrlsFrom(text, i) ==
    IF i > Len(text) THEN <<>>
    ELSE IF UrlAt(text, i) THEN RemoveUrlsFrom(text, RunEnd(text, i))
    ELSE <<text[i]>> \o RemoveUrlsFrom(text, i + 1)

RemoveUrls(text) == RemoveUrlsFrom(text, 1)

\* str.strip()
RECURSIVE LStrip(_)
LStrip(text) ==
    IF text # <<>> /\ IsSpace(Head(text)) THEN LStrip(Tail(text)) ELSE text

RECURSIVE RStrip(_)
RStrip(text) ==
    IF text # <<>> /\ IsSpace(text[Len(text)])
    THEN RStrip(SubSeq(text, 1, Len(text) - 1)) ELSE text

Strip(text) == RStrip(LStrip(text))

\* re.sub(r'\s+', ' ', text): every run of whitespace becomes one space
RECURSIVE CollapseFrom(_, _)
CollapseFrom(text, i) ==
    IF i > Len(text) THEN <<>>
    ELSE IF IsSpace(text[i])
         THEN IF i > 1 /\ IsSpace(text[i-1])
              THEN CollapseFrom(text, i + 1)
              ELSE <<" ">> \o CollapseFrom(text, i + 1)
         ELSE <<text[i]>> \o CollapseFrom(text, i + 1)

Collapse(text) == CollapseFrom(text, 1)

clean_text(text) ==
    IF text = NoneText \/ text = <<>> THEN <<>>
    ELSE Collapse(Strip(RemoveUrls(text)))

\* ------------------------------------------------- classifier.predict
\* Outcomes of the two pipelines.  ok = FALSE is an exception of the model.
ZeroShotOutcomes ==
    {[ok |-> FALSE]}
    \cup [ok : {TRUE}, top_label : {"human", "ai", "other"}, top_score : {90}]
SentimentOutcomes ==
    {[ok |-> FALSE]}
    \cup [ok : {TRUE}, label : {"POSITIVE", "NEGATIVE"}, score : {80}]

label_map(l) == IF l = "human" THEN "Human" ELSE IF l = "ai" THEN "AI" ELSE l

\* The value returned by predict together with what happened on the way:
\* raised (an exception leaves predict), zs_called / sent_called (the model
\* was invoked).
predict_catch_zero_shot_only(text, zs, sent) ==
    LET t == clean_text(text) IN
    IF t = <<>>
    THEN [raised |-> FALSE, zs_called |-> FALSE, sent_called |-> FALSE,
          value |-> [label |-> "Unknown", score |-> 0]]
    ELSE IF ~zs.ok
    THEN [raised |-> FALSE, zs_called |-> TRUE, sent_called |-> FALSE,
          value |-> [label |-> "Error", score |-> 0]]
    ELSE IF ~sent.ok
    THEN [raised |-> TRUE, zs_called |-> TRUE, sent_called |-> TRUE,
          value |-> [exception |-> "sentiment"]]
    ELSE [raised |-> FALSE, zs_called |-> TRUE, sent_called |-> TRUE,
          value |-> [label |-> label_map(zs.top_label),
                     score |-> zs.top_score,
                     sentiment |-> sent.label,
                     sentiment_score |-> sent.score]]

predict(text, zs, sent) ==
    LET t == clean_text(text) IN
    IF t = <<>>
    THEN [raised |-> FALSE, zs_called |-> FALSE, sent_called |-> FALSE,
          value |-> [label |-> "Unknown", score |-> 0]]
    ELSE IF ~zs.ok
    THEN [raised |-> FALSE, zs_called |-> TRUE, sent_called |-> FALSE,
          value |-> [label |-> "Error", score |-> 0]]
    ELSE IF ~sent.ok
    THEN [raised |-> FALSE, zs_called |-> TRUE, sent_called |-> TRUE,
          value |-> [label |-> "Error", score |-> 0]]
    ELSE [raised |-> FALSE, zs_called |-> TRUE, sent_called |-> TRUE,
          value |-> [label |-> label_map(zs.top_label),
                     score |-> zs.top_score,
                     sentiment |-> sent.label,
                     sentiment_score |-> sent.score]]

\* ------------------------------------------------------------------ state
VARIABLES
    \* st.session_state (main.py:142-151)
    streaming, comments_data, total_processed, total_ai, total_negative,
    \* the script run of main: position, loop variable, prediction, status
    pc, item, prediction, status, classifier_cached,
    \* RedditStreamer and the generator of stream_comments
    reddit_ok, gen, raw, feed_pos, yielded,
    \* database.py: MONGODB_URI set, the cached _db, the comments collection,
    \* the number of ObjectIds generated by insert_one
    uri_set, db_handle, collection, oid_counter,
    \* observations on the store: stored_at of the document of every
    \* insert_one call, the last function called and what it returned
    insert_log, last_call, last_result,
    \* database.py: the number of MongoClient objects constructed (the global
    \* _client is the last one), the client the cached _db belongs to (0 when
    \* _db is None)
    clients, db_client,
    \* the calls of init_db of each session: position in the function, the
    \* handle last returned; the first handle any call returned
    init_pc, init_ret, handed_out,
    \* datetime.utcnow() / datetime.now()
    clock,
    \* observations: calls made, faults met, how the loop of the run ended
    predict_calls, save_calls, faults, ended,
    \* a call of predict on its own
    p_text, p_zs, p_sent, p_result

session == <<streaming, comments_data, total_processed, total_ai, total_negative>>
aggregate == <<comments_data, total_processed, total_ai, total_negative>>
run == <<pc, item, prediction, status, classifier_cached>>
feed == <<reddit_ok, gen, raw, feed_pos, yielded>>
connection == <<clients, db_client, handed_out>>
callers == <<init_pc, init_ret>>
store == <<uri_set, db_handle, collection, oid_counter, insert_log, last_call,
           last_result, connection, callers>>
observed == <<predict_calls, save_calls, faults, ended>>
pvars == <<p_text, p_zs, p_sent, p_result>>

vars == <<streaming, comments_data, total_processed, total_ai, total_negative,
          pc, item, prediction, status, classifier_cached,
          reddit_ok, gen, raw, feed_pos, yielded,
          uri_set, db_handle, collection, oid_counter, insert_log, last_call,
          last_result, clients, db_client, init_pc, init_ret, handed_out, clock,
          predict_calls, save_calls, faults, ended,
          p_text, p_zs, p_sent, p_result>>

NoItem == [none |-> TRUE]
NoPrediction == [none |-> TRUE]
NoResult == [none |-> TRUE]
NoOutcome == [none |-> TRUE]
NoEvent == [kind |-> "none"]
NoCall == [fn |-> "none"]

\* the sessions of the application; a handle is named by the number of the
\* client it belongs to, NoHandle is None, NotCalled the value before the
\* first return
Sessions == 1..MaxSessions
NoHandle == 0
NotCalled == -1

\* database.py:31-32 and no call of init_db made
NoConnection ==
    /\ clients = 0
    /\ db_client = NoHandle
    /\ handed_out = NoHandle
    /\ init_pc = [s \in Sessions |-> "idle"]
    /\ init_ret = [s \in Sessions |-> NotCalled]

\* bodies of the comments the feed delivers: a text, a URL only (normalised
\* to the empty text) and the empty text
Bodies == { <<"h", "t">>, <<"h", "t", "t", "p", "t">>, <<>> }

\* What the underlying praw stream delivers next: a well-formed comment, a
\* comment whose fields raise AttributeError when read, a comment whose
\* fields raise another exception when read, or a failure of the connection.
FeedEvents ==
    [kind : {"comment"}, body : Bodies]
    \cup {[kind |-> "attribute_error"], [kind |-> "read_error"],
          [kind |-> "feed_failure"]}

\* the two labels of candidate_labels (classifier.py:20)
LoopZeroShotOutcomes == {z \in ZeroShotOutcomes : z.ok => z.top_label # "other"}

Texts(n) == UNION {[1..k -> Chars] : k \in 0..n} \cup {NoneText}

MainInit ==
    /\ streaming = FALSE
    /\ comments_data = <<>>
    /\ total_processed = 0
    /\ total_ai = 0
    /\ total_negative = 0
    /\ pc = "done"
    /\ item = NoItem
    /\ prediction = NoPrediction
    /\ status = "none"
    /\ classifier_cached = FALSE
    /\ reddit_ok = FALSE
    /\ gen = "none"
    /\ raw = NoEvent
    /\ feed_pos = 0
    /\ yielded = <<>>
    /\ uri_set \in BOOLEAN
    /\ db_handle = None
    /\ collection = <<>>
    /\ oid_counter = 0
    /\ insert_log = <<>>
    /\ last_call = NoCall
    /\ last_result = NoResult
    /\ NoConnection
    /\ clock = 0
    /\ predict_calls = 0
    /\ save_calls = 0
    /\ faults = {}
    /\ ended = "none"

Init ==
    /\ MainInit
    /\ p_text = <<>>
    /\ p_zs = NoOutcome
    /\ p_sent = NoOutcome
    /\ p_result = NoResult

\* ------------------------------------------ reddit_stream.stream_comments
\* The records the generator yields.  Of the six fields of a comment record
\* the ones the loop reads are kept: id, author, body.
CommentRecord(n, body) == [id |-> n, author |-> "user", body |-> body]
ErrorRecord == [error |-> "message"]

\* gen: "none" (no generator), "start" (created, body not entered), "iter"
\* (suspended at the yield of line 53 or about to read the stream),
\* "after_error" (suspended at the yield of line 61 or 64), "returned".

\* lines 34-36: no client, the generator returns without yielding
GenReturnUninitialised ==
    /\ gen = "start" /\ ~reddit_ok
    /\ gen' = "returned"
    /\ UNCHANGED <<raw, feed_pos, yielded, item>>

\* lines 39-43 succeed: the stream is open
GenOpen ==
    /\ gen = "start" /\ reddit_ok
    /\ gen' = "iter"
    /\ UNCHANGED <<raw, feed_pos, yielded, item>>

\* lines 39-43 raise: lines 59-64 yield one error record
GenOpenFails ==
    /\ gen = "start" /\ reddit_ok
    /\ gen' = "after_error"
    /\ item' = ErrorRecord
    /\ yielded' = Append(yielded, ErrorRecord)
    /\ UNCHANGED <<raw, feed_pos>>

\* GenHandle with the handlers of lines 59-64 inside the for statement: the
\* iteration goes on after the error record
GenHandle_ResumesAfterError(ev) ==
    /\ gen = "iter" /\ feed_pos < MaxFeed
    /\ feed_pos' = feed_pos + 1
    /\ raw' = ev
    /\ gen' = "iter"
    /\ IF ev.kind = "comment"
       THEN /\ item' = CommentRecord(feed_pos + 1, ev.body)
            /\ yielded' = Append(yielded, CommentRecord(feed_pos + 1, ev.body))
       ELSE IF ev.kind = "attribute_error"
       THEN UNCHANGED <<item, yielded>>
       ELSE /\ item' = ErrorRecord
            /\ yielded' = Append(yielded, ErrorRecord)

\* what lines 43-64 do with the event ev the stream delivers
GenHandle(ev) ==
    /\ gen = "iter" /\ feed_pos < MaxFeed
    /\ feed_pos' = feed_pos + 1
    /\ raw' = ev
    /\ IF ev.kind = "comment"
       THEN /\ item' = CommentRecord(feed_pos + 1, ev.body)
            /\ yielded' = Append(yielded, CommentRecord(feed_pos + 1, ev.body))
            /\ gen' = "iter"
       ELSE IF ev.kind = "attribute_error"
       THEN /\ gen' = "iter"
            /\ UNCHANGED <<item, yielded>>
       ELSE /\ item' = ErrorRecord
            /\ yielded' = Append(yielded, ErrorRecord)
            /\ gen' = "after_error"

\* line 43 delivers a well-formed comment: lines 45-53 yield its record
GenYieldComment ==
    \E ev \in FeedEvents : ev.kind = "comment" /\ GenHandle(ev)

\* reading the fields raises AttributeError: lines 55-57 skip the comment
GenSkipComment ==
    \E ev \in FeedEvents : ev.kind = "attribute_error" /\ GenHandle(ev)

\* reading the fields raises another exception: it leaves the inner try and
\* lines 59-64 yield one error record
GenReadError ==
    \E ev \in FeedEvents : ev.kind = "read_error" /\ GenHandle(ev)

\* the stream itself raises: lines 59-64 yield one error record
GenFeedFailure ==
    \E ev \in FeedEvents : ev.kind = "feed_failure" /\ GenHandle(ev)

\* resumed after the yield of line 61 or 64: the function ends
GenFinish ==
    /\ gen = "after_error"
    /\ gen' = "returned"
    /\ UNCHANGED <<raw, feed_pos, yielded, item>>

\* ------------------------------------------------------------ database.py
\* init_db (lines 34-60): the handle it returns; reachable is whether the
\* server answers server_info()
init_db(handle, reachable) ==
    IF handle # None THEN handle
    ELSE IF ~uri_set THEN None
    ELSE IF reachable THEN "db"
    ELSE None

\* init_db run from its first line to its return with no other session in
\* between: line 52 constructs a client, line 55 caches the handle of the
\* client, the handle is returned
init_db_call(reachable) ==
    LET connecting == db_handle = None /\ uri_set IN
    /\ db_handle' = init_db(db_handle, reachable)
    /\ clients' = IF connecting THEN clients + 1 ELSE clients
    /\ db_client' = IF connecting /\ reachable THEN clients + 1 ELSE db_client
    /\ handed_out' = IF handed_out = NoHandle THEN db_client' ELSE handed_out
    /\ UNCHANGED callers

Merge(a, b) ==
    [k \in DOMAIN a \cup DOMAIN b |-> IF k \in DOMAIN b THEN b[k] ELSE a[k]]

\* WithStoredAt with the test of line 73 (117) dropped: the timestamp of the
\* store always replaces the one of the caller
WithStoredAt_AlwaysNow(data, now) == Merge(data, [stored_at |-> now])

\* lines 73-74, 117-118: the timestamp is added when the document lacks it
WithStoredAt(data, now) ==
    IF "stored_at" \in DOMAIN data THEN data
    ELSE Merge(data, [stored_at |-> now])

\* insert_one: the document gets the next ObjectId as _id
ObjectId(n) == [oid |-> n]
WithId(data) == Merge(data, [_id |-> ObjectId(oid_counter + 1)])

\* the part of save_comment and create_document from the stored_at test to
\* insert_one (lines 73-76, 117-120), at time now; insert_ok is whether
\* insert_one returns
InsertOne(data, now, insert_ok) ==
    LET doc == WithId(WithStoredAt(data, now)) IN
    /\ clock' = IF "stored_at" \in DOMAIN data THEN now ELSE now + 1
    /\ oid_counter' = oid_counter + 1
    /\ insert_log' = Append(insert_log, doc.stored_at)
    /\ collection' = IF insert_ok THEN Append(collection, doc) ELSE collection

\* save_comment (lines 62-79), called at time now: returns normally in
\* every case; an exception of insert_one is caught at line 78
save_comment(data, now, reachable, insert_ok) ==
    LET db == init_db(db_handle, reachable) IN
    /\ init_db_call(reachable)
    /\ last_call' = [fn |-> "save_comment", data |-> data]
    /\ last_result' = [returned |-> None]
    /\ IF db = None
       THEN /\ clock' = now
            /\ UNCHANGED <<collection, oid_counter, insert_log>>
       ELSE InsertOne(data, now, insert_ok)
    /\ UNCHANGED uri_set

\* str(ObjectId) is a 24-digit hexadecimal string: [hex |-> n] is the string
\* of ObjectId(n), [str |-> s] a string that is no such string
HexString(n) == [hex |-> n]

\* fix_oid (lines 10-28): an _id given as a string becomes an ObjectId, or
\* stays the string when ObjectId rejects it.  The filters of the console
\* hold no nested mapping, so the recursion of line 25 is not entered.
fix_oid(query) ==
    [k \in DOMAIN query |->
        IF k = "_id" /\ "hex" \in DOMAIN query[k]
        THEN ObjectId(query[k].hex)
        ELSE query[k]]

\* a document matches a filter when it has every field of the filter with
\* the value of the filter
Matches(doc, query) ==
    \A k \in DOMAIN query : k \in DOMAIN doc /\ doc[k] = query[k]

\* index of the first document that matches, 0 when none does
FirstMatch(query) ==
    IF \E i \in 1..Len(collection) : Matches(collection[i], query)
    THEN CHOOSE i \in 1..Len(collection) :
            /\ Matches(collection[i], query)
            /\ \A j \in 1..(i - 1) : ~Matches(collection[j], query)
    ELSE 0

UpdateOperators == {"$set", "$unset"}

\* update_one accepts a document all of whose keys are update operators
IsUpdateDocument(op) == DOMAIN op # {} /\ DOMAIN op \subseteq UpdateOperators

\* the document after $set and $unset
ApplyUpdate(doc, op) ==
    LET set == IF "$set" \in DOMAIN op THEN Merge(doc, op["$set"]) ELSE doc
    IN IF "$unset" \in DOMAIN op
       THEN [k \in DOMAIN set \ DOMAIN op["$unset"] |-> set[k]]
       ELSE set

\* line 136
update_op(update_data, is_raw_update) ==
    IF is_raw_update THEN update_data ELSE ("$set" :> update_data)

\* create_document (lines 107-124)
create_document(data, now, reachable, insert_ok) ==
    LET db == init_db(db_handle, reachable) IN
    /\ init_db_call(reachable)
    /\ last_call' = [fn |-> "create_document", data |-> data]
    /\ IF db = None
       THEN /\ last_result' = [error |-> "Database not connected"]
            /\ clock' = now
            /\ UNCHANGED <<collection, oid_counter, insert_log>>
       ELSE /\ InsertOne(data, now, insert_ok)
            /\ last_result' =
                 IF insert_ok
                 THEN [inserted_id |-> HexString(oid_counter + 1),
                       acknowledged |-> TRUE]
                 ELSE [error |-> "message"]
    /\ UNCHANGED uri_set

\* update_document (lines 126-149); op_ok is whether update_one reaches the
\* server
update_document(filter_query, update_data, is_raw_update, reachable, op_ok) ==
    LET db == init_db(db_handle, reachable)
        op == update_op(update_data, is_raw_update)
        i == FirstMatch(fix_oid(filter_query))
    IN
    /\ init_db_call(reachable)
    /\ last_call' = [fn |-> "update_document", update |-> update_data,
                     is_raw |-> is_raw_update]
    /\ IF db = None
       THEN /\ last_result' = [error |-> "Database not connected"]
            /\ UNCHANGED collection
       ELSE IF ~IsUpdateDocument(op) \/ ~op_ok
       THEN /\ last_result' = [error |-> "message"]
            /\ UNCHANGED collection
       ELSE IF i = 0
       THEN /\ last_result' = [matched_count |-> 0, modified_count |-> 0,
                               acknowledged |-> TRUE]
            /\ UNCHANGED collection
       ELSE /\ collection' =
                 [collection EXCEPT ![i] = ApplyUpdate(collection[i], op)]
            /\ last_result' =
                 [matched_count |-> 1,
                  modified_count |->
                      IF ApplyUpdate(collection[i], op) = collection[i]
                      THEN 0 ELSE 1,
                  acknowledged |-> TRUE]
    /\ UNCHANGED <<uri_set, oid_counter, insert_log, clock>>

\* delete_document (lines 151-171)
delete_document(filter_query, reachable, op_ok) ==
    LET db == init_db(db_handle, reachable)
        i == FirstMatch(fix_oid(filter_query))
    IN
    /\ init_db_call(reachable)
    /\ last_call' = [fn |-> "delete_document"]
    /\ IF db = None
       THEN /\ last_result' = [error |-> "Database not connected"]
            /\ UNCHANGED collection
       ELSE IF ~op_ok
       THEN /\ last_result' = [error |-> "message"]
            /\ UNCHANGED collection
       ELSE IF i = 0
       THEN /\ last_result' = [deleted_count |-> 0, acknowledged |-> TRUE]
            /\ UNCHANGED collection
       ELSE /\ collection' = SubSeq(collection, 1, i - 1)
                             \o SubSeq(collection, i + 1, Len(collection))
            /\ last_result' = [deleted_count |-> 1, acknowledged |-> TRUE]
    /\ UNCHANGED <<uri_set, oid_counter, insert_log, clock>>

\* ---------------------------------------------------------------- main.py
\* deque(maxlen=100).appendleft: the entry goes to the front, the entry at
\* the back is dropped when the deque is full
appendleft(dq, entry) ==
    IF Len(dq) >= WindowCap
    THEN <<entry>> \o SubSeq(dq, 1, WindowCap - 1)
    ELSE <<entry>> \o dq

\* lines 292-294: an exception of the loop body is caught
StreamCrashed ==
    /\ status' = "crashed"
    /\ streaming' = FALSE
    /\ pc' = "done"
    /\ ended' = "crashed"

\* A script run of main from its first line to the for statement of line
\* 192.  trigger is the widget that caused the run: the Start button, the
\* Stop button or any other widget (a CRUD console action).
Rerun(trigger, loads, client_ok) ==
    /\ pc = "done"
    /\ streaming' = IF trigger = "stop" THEN FALSE
                    ELSE IF trigger = "start" THEN TRUE
                    ELSE streaming
    /\ item' = NoItem
    /\ prediction' = NoPrediction
    /\ IF ~(classifier_cached \/ loads)
       THEN \* lines 176-181: the model fails to load, main returns
            /\ status' = "load_failed"
            /\ pc' = "done"
            /\ ended' = "load_failed"
            /\ UNCHANGED <<classifier_cached, feed>>
       ELSE /\ classifier_cached' = TRUE
            /\ reddit_ok' = client_ok
            /\ raw' = NoEvent
            /\ yielded' = <<>>
            /\ UNCHANGED feed_pos
            /\ IF streaming'
               THEN /\ status' = "streaming"
                    /\ gen' = "start"
                    /\ pc' = "pull"
                    /\ ended' = "none"
               ELSE /\ status' = "stopped"
                    /\ gen' = "none"
                    /\ pc' = "done"
                    /\ ended' = "not_streaming"
    /\ UNCHANGED <<aggregate, store, clock, predict_calls, save_calls, faults,
                   pvars>>

StartClicked == \E loads, client_ok \in BOOLEAN : Rerun("start", loads, client_ok)
StopClicked == \E loads, client_ok \in BOOLEAN : Rerun("stop", loads, client_ok)
OtherWidget == \E loads, client_ok \in BOOLEAN : Rerun("other", loads, client_ok)

\* The Stop button is pressed while the loop of line 192 runs: lines 155-156
\* of the run it triggers clear the flag the loop reads at line 193.
StopSignal ==
    /\ pc \notin {"done"}
    /\ streaming
    /\ streaming' = FALSE
    /\ UNCHANGED <<aggregate, run, feed, store, clock, observed, pvars>>

\* line 192: the for statement asks the generator for its next item
LoopAfterNext ==
    /\ pc' = IF Len(yielded') > Len(yielded) THEN "check"
             ELSE IF gen' = "returned" THEN "done"
             ELSE "pull"
    /\ ended' = IF gen' = "returned" THEN "exhausted" ELSE ended
    /\ faults' = IF "error" \in DOMAIN item' THEN faults \cup {"feed"}
                 ELSE faults
    /\ UNCHANGED <<session, prediction, status, classifier_cached, reddit_ok,
                   store, clock, predict_calls, save_calls, pvars>>

PullUninitialised == pc = "pull" /\ GenReturnUninitialised /\ LoopAfterNext
PullOpen == pc = "pull" /\ GenOpen /\ LoopAfterNext
PullOpenFails == pc = "pull" /\ GenOpenFails /\ LoopAfterNext
PullComment == pc = "pull" /\ GenYieldComment /\ LoopAfterNext
PullSkipped == pc = "pull" /\ GenSkipComment /\ LoopAfterNext
PullReadError == pc = "pull" /\ GenReadError /\ LoopAfterNext
PullFeedFailure == pc = "pull" /\ GenFeedFailure /\ LoopAfterNext

\* CheckItem with the error record counted as a processed item
CheckItem_CountsErrorRecord ==
    /\ pc = "check"
    /\ IF ~streaming
       THEN /\ pc' = "done"
            /\ ended' = "stop"
            /\ UNCHANGED <<status, total_processed>>
       ELSE IF "error" \in DOMAIN item
       THEN /\ status' = "error_feed"
            /\ total_processed' = total_processed + 1
            /\ pc' = "done"
            /\ ended' = "feed_error"
       ELSE /\ pc' = "classify"
            /\ UNCHANGED <<status, ended, total_processed>>
    /\ UNCHANGED <<streaming, comments_data, total_ai, total_negative, item,
                   prediction, classifier_cached, feed, store, clock,
                   predict_calls, save_calls, faults, pvars>>

\* CheckItem without the test of line 193
CheckItem_IgnoresStopFlag ==
    /\ pc = "check"
    /\ IF "error" \in DOMAIN item
       THEN /\ status' = "error_feed"
            /\ pc' = "done"
            /\ ended' = "feed_error"
       ELSE /\ pc' = "classify"
            /\ UNCHANGED <<status, ended>>
    /\ UNCHANGED <<session, item, prediction, classifier_cached, feed, store,
                   clock, predict_calls, save_calls, faults, pvars>>

\* lines 193-198: the stop flag, then the error record
CheckItem ==
    /\ pc = "check"
    /\ IF ~streaming
       THEN /\ pc' = "done"
            /\ ended' = "stop"
            /\ UNCHANGED status
       ELSE IF "error" \in DOMAIN item
       THEN /\ status' = "error_feed"
            /\ pc' = "done"
            /\ ended' = "feed_error"
       ELSE /\ pc' = "classify"
            /\ UNCHANGED <<status, ended>>
    /\ UNCHANGED <<session, item, prediction, classifier_cached, feed, store,
                   clock, predict_calls, save_calls, faults, pvars>>

\* line 201
Classify ==
    /\ pc = "classify"
    /\ \E zs \in LoopZeroShotOutcomes, sent \in SentimentOutcomes :
         LET r == predict(item.body, zs, sent) IN
         /\ predict_calls' = predict_calls + 1
         /\ faults' = IF (r.zs_called /\ ~zs.ok) \/ (r.sent_called /\ ~sent.ok)
                      THEN faults \cup {"model"} ELSE faults
         /\ IF r.raised
            THEN /\ StreamCrashed
                 /\ UNCHANGED prediction
            ELSE /\ prediction' = r.value
                 /\ pc' = "stats"
                 /\ UNCHANGED <<streaming, status, ended>>
    /\ UNCHANGED <<aggregate, item, classifier_cached, feed, store, clock,
                   save_calls, pvars>>

\* lines 204-211; prediction['sentiment'] of line 209 raises KeyError when
\* the prediction has no sentiment
UpdateStats ==
    /\ pc = "stats"
    /\ total_processed' = total_processed + 1
    /\ total_ai' = IF prediction.label = "AI" THEN total_ai + 1 ELSE total_ai
    /\ IF "sentiment" \notin DOMAIN prediction
       THEN /\ StreamCrashed
            /\ UNCHANGED total_negative
       ELSE /\ total_negative' = IF prediction.sentiment = "NEGATIVE"
                                 THEN total_negative + 1 ELSE total_negative
            /\ pc' = "save"
            /\ UNCHANGED <<streaming, status, ended>>
    /\ UNCHANGED <<comments_data, item, prediction, classifier_cached, feed,
                   store, clock, predict_calls, save_calls, faults, pvars>>

\* lines 215-222
db_data(comment, pred, now) ==
    Merge(comment, [ai_label |-> pred.label,
                    ai_score |-> pred.score,
                    sentiment |-> pred.sentiment,
                    sentiment_score |-> pred.sentiment_score,
                    analyzed_at |-> now])

\* Save with a save_comment that lets the exception of insert_one through:
\* lines 292-294 catch it
Save_InsertFailureRaises ==
    /\ pc = "save"
    /\ \E reachable, insert_ok \in BOOLEAN :
         /\ save_comment(db_data(item, prediction, clock), clock + 1,
                         reachable, insert_ok)
         /\ faults' = IF Len(collection') = Len(collection)
                      THEN faults \cup {"store"} ELSE faults
         /\ IF db_handle' # None /\ ~insert_ok
            THEN StreamCrashed
            ELSE /\ pc' = "window"
                 /\ UNCHANGED <<streaming, status, ended>>
    /\ save_calls' = save_calls + 1
    /\ UNCHANGED <<aggregate, item, prediction, classifier_cached, feed,
                   predict_calls, pvars>>

\* lines 215-223
Save ==
    /\ pc = "save"
    /\ \E reachable, insert_ok \in BOOLEAN :
         /\ save_comment(db_data(item, prediction, clock), clock + 1,
                         reachable, insert_ok)
         /\ faults' = IF Len(collection') = Len(collection)
                      THEN faults \cup {"store"} ELSE faults
    /\ save_calls' = save_calls + 1
    /\ pc' = "window"
    /\ UNCHANGED <<session, item, prediction, status, classifier_cached, feed,
                   predict_calls, ended, pvars>>

\* lines 225-232
comment_entry(comment, pred, now) ==
    [author |-> comment.author, body |-> comment.body, label |-> pred.label,
     score |-> pred.score, sentiment |-> pred.sentiment, time |-> now]

\* PushEntry without the appendleft of line 233
PushEntry_DropsEntry ==
    /\ pc = "window"
    /\ clock' = clock + 1
    /\ pc' = "pull"
    /\ UNCHANGED <<session, item, prediction, status, classifier_cached, feed,
                   store, observed, pvars>>

\* lines 225-290: the entry is pushed, the metrics and the feed are drawn
PushEntry ==
    /\ pc = "window"
    /\ comments_data' = appendleft(comments_data,
                                   comment_entry(item, prediction, clock))
    /\ clock' = clock + 1
    /\ pc' = "pull"
    /\ UNCHANGED <<streaming, total_processed, total_ai, total_negative, item,
                   prediction, status, classifier_cached, feed, store,
                   observed, pvars>>

Next ==
    \/ StartClicked
    \/ StopClicked
    \/ OtherWidget
    \/ StopSignal
    \/ PullUninitialised
    \/ PullOpen
    \/ PullOpenFails
    \/ PullComment
    \/ PullSkipped
    \/ PullReadError
    \/ PullFeedFailure
    \/ CheckItem
    \/ Classify
    \/ UpdateStats
    \/ Save
    \/ PushEntry

Spec == Init /\ [][Next]_vars

\* ------------------------------------- a caller that drains the generator
\* stream_comments driven by a caller that keeps calling next() until the
\* generator returns, as the for statement of the __main__ block of
\* reddit_stream.py does when its body does not break.
StreamInit ==
    /\ streaming = FALSE
    /\ comments_data = <<>>
    /\ total_processed = 0
    /\ total_ai = 0
    /\ total_negative = 0
    /\ pc = "caller"
    /\ item = NoItem
    /\ prediction = NoPrediction
    /\ status = "none"
    /\ classifier_cached = FALSE
    /\ reddit_ok \in BOOLEAN
    /\ gen = "start"
    /\ raw = NoEvent
    /\ feed_pos = 0
    /\ yielded = <<>>
    /\ uri_set = FALSE
    /\ db_handle = None
    /\ collection = <<>>
    /\ oid_counter = 0
    /\ insert_log = <<>>
    /\ last_call = NoCall
    /\ last_result = NoResult
    /\ NoConnection
    /\ clock = 0
    /\ predict_calls = 0
    /\ save_calls = 0
    /\ faults = {}
    /\ ended = "none"
    /\ p_text = <<>>
    /\ p_zs = NoOutcome
    /\ p_sent = NoOutcome
    /\ p_result = NoResult

CallerFrame ==
    UNCHANGED <<session, pc, prediction, status, classifier_cached, reddit_ok,
                store, clock, observed, pvars>>

NextUninitialised == GenReturnUninitialised /\ CallerFrame
NextOpen == GenOpen /\ CallerFrame
NextOpenFails == GenOpenFails /\ CallerFrame
NextComment == GenYieldComment /\ CallerFrame
NextSkipped == GenSkipComment /\ CallerFrame
NextReadError == GenReadError /\ CallerFrame
NextFeedFailure == GenFeedFailure /\ CallerFrame
NextFinish == GenFinish /\ CallerFrame

\* the caller calls stream_comments again once the generator has returned
\* (every run of main.py:192 makes a new call)
NextCall ==
    /\ gen = "returned"
    /\ gen' = "start"
    /\ yielded' = <<>>
    /\ item' = NoItem
    /\ raw' = NoEvent
    /\ UNCHANGED feed_pos
    /\ CallerFrame

StreamNext ==
    \/ NextCall
    \/ NextUninitialised
    \/ NextOpen
    \/ NextOpenFails
    \/ NextComment
    \/ NextSkipped
    \/ NextReadError
    \/ NextFeedFailure
    \/ NextFinish

SpecStream == StreamInit /\ [][StreamNext]_vars

\* --------------------------------------------------- predict on its own
PredictInit ==
    /\ MainInit
    /\ p_text \in Texts(MaxTextLen)
    /\ p_zs = NoOutcome
    /\ p_sent = NoOutcome
    /\ p_result = NoResult

PredictCall ==
    /\ p_result = NoResult
    /\ \E zs \in ZeroShotOutcomes, sent \in SentimentOutcomes :
         /\ p_zs' = zs
         /\ p_sent' = sent
         /\ p_result' = predict(p_text, zs, sent)
    /\ UNCHANGED <<session, run, feed, store, clock, observed, p_text>>

PredictNext == PredictCall

SpecPredict == PredictInit /\ [][PredictNext]_vars

\* ------------------------------------------------ the store on its own
\* The functions of database.py called one after the other, by the Database
\* Manager of the sidebar (main.py:76-139) and by the loop (main.py:223).
EmptyFilter == [k \in {} |-> TRUE]

\* documents typed in the console: the default one and one with a stored_at
\* of the caller
ConsoleDocuments == {[test |-> "data"], [test |-> "data", stored_at |-> 77]}

\* the document the loop hands to save_comment
PipelineDocument ==
    db_data(CommentRecord(1, <<"h", "t">>),
            [label |-> "AI", score |-> 90, sentiment |-> "NEGATIVE",
             sentiment_score |-> 80],
            clock)

ConsoleFilters ==
    {EmptyFilter, [test |-> "data"], [_id |-> HexString(1)],
     [_id |-> [str |-> "x"]]}

\* patches typed with "Raw Update Operator?" unchecked
FieldPatches == {[test |-> "updated"], [stored_at |-> 88]}

\* updates typed with "Raw Update Operator?" checked; the last one has no
\* operator and is refused by update_one
RawUpdates ==
    {("$set" :> [test |-> "updated"]), ("$unset" :> [stored_at |-> ""]),
     [test |-> "updated"]}

StoreInit ==
    /\ streaming = FALSE
    /\ comments_data = <<>>
    /\ total_processed = 0
    /\ total_ai = 0
    /\ total_negative = 0
    /\ pc = "console"
    /\ item = NoItem
    /\ prediction = NoPrediction
    /\ status = "none"
    /\ classifier_cached = FALSE
    /\ reddit_ok = FALSE
    /\ gen = "none"
    /\ raw = NoEvent
    /\ feed_pos = 0
    /\ yielded = <<>>
    /\ uri_set \in BOOLEAN
    /\ db_handle = None
    /\ collection = <<>>
    /\ oid_counter = 0
    /\ insert_log = <<>>
    /\ last_call = NoCall
    /\ last_result = NoResult
    /\ NoConnection
    /\ clock = 0
    /\ predict_calls = 0
    /\ save_calls = 0
    /\ faults = {}
    /\ ended = "none"
    /\ p_text = <<>>
    /\ p_zs = NoOutcome
    /\ p_sent = NoOutcome
    /\ p_result = NoResult

StoreFrame == UNCHANGED <<session, run, feed, observed, pvars>>

\* the call constructs no client beyond the bound
WithinClients == db_handle # None \/ ~uri_set \/ clients < MaxClients

\* whether the server answers server_info(), for a call that reaches line 54
Reachability == IF db_handle = None /\ uri_set THEN BOOLEAN ELSE {TRUE}

\* main.py:223
PipelineSave ==
    /\ WithinClients
    /\ oid_counter < MaxInserts
    /\ \E reachable \in Reachability, insert_ok \in BOOLEAN :
         save_comment(PipelineDocument, clock, reachable, insert_ok)
    /\ StoreFrame

\* main.py:92-105
ConsoleCreate ==
    /\ WithinClients
    /\ oid_counter < MaxInserts
    /\ \E data \in ConsoleDocuments, reachable \in Reachability,
          insert_ok \in BOOLEAN :
         create_document(data, clock, reachable, insert_ok)
    /\ StoreFrame

\* main.py:107-124, the box "Raw Update Operator?" unchecked
ConsoleUpdate ==
    /\ WithinClients
    /\ \E f \in ConsoleFilters, u \in FieldPatches,
          reachable \in Reachability, op_ok \in BOOLEAN :
         update_document(f, u, FALSE, reachable, op_ok)
    /\ StoreFrame

\* main.py:107-124, the box checked
ConsoleRawUpdate ==
    /\ WithinClients
    /\ \E f \in ConsoleFilters, u \in RawUpdates,
          reachable \in Reachability, op_ok \in BOOLEAN :
         update_document(f, u, TRUE, reachable, op_ok)
    /\ StoreFrame

\* main.py:126-139
ConsoleDelete ==
    /\ WithinClients
    /\ \E f \in ConsoleFilters, reachable \in Reachability, op_ok \in BOOLEAN :
         delete_document(f, reachable, op_ok)
    /\ StoreFrame

StoreNext ==
    \/ PipelineSave
    \/ ConsoleCreate
    \/ ConsoleUpdate
    \/ ConsoleRawUpdate
    \/ ConsoleDelete

SpecStore == StoreInit /\ [][StoreNext]_vars

\* --------------------------------------------- init_db called by sessions
\* Streamlit runs the script of every session in a thread of its own, and
\* database.py holds _client and _db at module level with no lock: the calls
\* of init_db of two sessions interleave between its statements.
ConnectInit == StoreInit

ConnectFrame ==
    UNCHANGED <<session, run, feed, observed, pvars, clock, uri_set,
                collection, oid_counter, insert_log, last_call, last_result>>

\* the call of session s returns handle h
Return(s, h) ==
    /\ init_pc' = [init_pc EXCEPT ![s] = "idle"]
    /\ init_ret' = [init_ret EXCEPT ![s] = h]
    /\ handed_out' = IF handed_out = NoHandle THEN h ELSE handed_out

\* number of calls past the test of line 41 that have not reached line 52
Pending == Cardinality({s \in Sessions : init_pc[s] = "construct"})

\* lines 41-42: _db is set, the cached handle is returned
InitDbCached(s) ==
    /\ init_pc[s] = "idle"
    /\ db_handle # None
    /\ Return(s, db_client)
    /\ UNCHANGED <<db_handle, clients, db_client>>
    /\ ConnectFrame

\* lines 41-49 with MONGODB_URI unset: None is returned
InitDbNoUri(s) ==
    /\ init_pc[s] = "idle"
    /\ db_handle = None
    /\ ~uri_set
    /\ Return(s, NoHandle)
    /\ UNCHANGED <<db_handle, clients, db_client>>
    /\ ConnectFrame

\* lines 41-49 with _db None and MONGODB_URI set: the call goes on to line 52
InitDbCheck(s) ==
    /\ init_pc[s] = "idle"
    /\ db_handle = None
    /\ uri_set
    /\ clients + Pending < MaxClients
    /\ init_pc' = [init_pc EXCEPT ![s] = "construct"]
    /\ UNCHANGED <<db_handle, clients, db_client, init_ret, handed_out>>
    /\ ConnectFrame

\* line 52: a MongoClient is constructed and assigned to the global _client
InitDbConstruct(s) ==
    /\ init_pc[s] = "construct"
    /\ clients' = clients + 1
    /\ init_pc' = [init_pc EXCEPT ![s] = "ping"]
    /\ UNCHANGED <<db_handle, db_client, init_ret, handed_out>>
    /\ ConnectFrame

\* lines 54-57: server_info() answers, the handle of the global _client is
\* assigned to _db and returned
InitDbConnected(s) ==
    /\ init_pc[s] = "ping"
    /\ db_handle' = "db"
    /\ db_client' = clients
    /\ Return(s, clients)
    /\ UNCHANGED clients
    /\ ConnectFrame

\* lines 54, 58-60: server_info() raises, None is returned
InitDbUnreachable(s) ==
    /\ init_pc[s] = "ping"
    /\ Return(s, NoHandle)
    /\ UNCHANGED <<db_handle, clients, db_client>>
    /\ ConnectFrame

ConnectNext ==
    \E s \in Sessions :
        \/ InitDbCached(s)
        \/ InitDbNoUri(s)
        \/ InitDbCheck(s)
        \/ InitDbConstruct(s)
        \/ InitDbConnected(s)
        \/ InitDbUnreachable(s)

SpecConnect == ConnectInit /\ [][ConnectNext]_vars

\* ================================================================ claims

ProcessingSteps == {"classify", "stats", "save", "window"}
SentinelLabels == {"Unknown", "Error"}
ErrorStatuses == {"error_feed", "crashed"}

IsErrorRecord(r) == "error" \in DOMAIN r
IsCommentRecord(r) == "id" \in DOMAIN r
IsFullPrediction(p) ==
    DOMAIN p = {"label", "score", "sentiment", "sentiment_score"}

\* the window is ordered newest-first: the times of its entries decrease
NewestFirst(dq) == \A i \in 1..(Len(dq) - 1) : dq[i].time > dq[i+1].time

\* C1: whatever prediction predict returns for a pulled comment record (full,
\* Error or Unknown), the processing of the item does not end the loop: the
\* loop goes on to pull the next item.
C1_ProcessingNeverEndsTheLoop ==
    [][(pc \in ProcessingSteps) => (pc' # "done")]_vars

\* C2: once the feed has yielded an error record to the loop, the session is
\* Idle: its streaming flag is false, so that a later run of main without a
\* start signal opens no stream.
C2_ErrorRecordClearsStreamingFlag ==
    ended = "feed_error" => ~streaming

\* C3: handling an error record leaves total_processed, total_ai,
\* total_negative and the window as they were, calls neither predict nor
\* save_comment, and ends the loop.
C3_ErrorRecordLeavesAggregateUntouched ==
    [][(pc = "check" /\ IsErrorRecord(item)) =>
          /\ UNCHANGED <<total_processed, total_ai, total_negative,
                         comments_data, collection>>
          /\ predict_calls' = predict_calls
          /\ save_calls' = save_calls
          /\ pc' \in {"check", "done"}]_vars

C3_Witness ==
    /\ ended = "feed_error"
    /\ status = "error_feed"
    /\ total_processed = 1
    /\ Len(comments_data) = 1

\* C4: between two items, when N comment records have been pulled and
\* processed and no error record, model exception or storage failure has
\* occurred, total_processed = N, the window holds min(N, 100) entries and
\* the window is ordered newest-first.
C4_AggregateAfterNItems ==
    (pc \in {"pull", "done"} /\ faults = {}) =>
        /\ total_processed = predict_calls
        /\ Len(comments_data) = Min(predict_calls, WindowCap)
        /\ NewestFirst(comments_data)

\* C5: whatever the store does (no connection string, server unreachable,
\* insert_one raising, insert_one succeeding), save_comment returns to the
\* loop, the loop pushes the entry of the item on the window and pulls the
\* next item; the streaming flag, the status and the counters are not
\* touched.
C5_StoreFailureNeverStopsStream ==
    [][/\ (pc = "save" /\ pc' # "save") =>
             /\ pc' = "window"
             /\ save_calls' = save_calls + 1
             /\ UNCHANGED <<streaming, status, ended, aggregate, item,
                            prediction>>
       /\ (pc = "window" /\ pc' # "window") =>
             /\ pc' = "pull"
             /\ Len(comments_data') = Min(Len(comments_data) + 1, WindowCap)
             /\ Head(comments_data').body = item.body
             /\ Head(comments_data').label = prediction.label
             /\ UNCHANGED <<streaming, status, ended, total_processed,
                            total_ai, total_negative>>]_vars

C5_Witness ==
    /\ uri_set
    /\ save_calls = 1
    /\ collection = <<>>
    /\ "store" \in faults
    /\ Len(comments_data) = 1
    /\ total_processed = 1
    /\ streaming
    /\ pc = "check"
    /\ IsCommentRecord(item)

\* C6 as stated: once the streaming flag is false, no further item is taken
\* from the feed.
C6_NoPullOnceFlagIsFalse ==
    [][~streaming => (feed_pos' = feed_pos /\ Len(yielded') <= Len(yielded))]_vars

\* C6 as amended: the flag is tested after the pull, before the item is
\* processed: when the test of line 193 finds the flag false, the pulled item
\* is dropped, the loop ends, and nothing is classified, persisted or folded
\* into the aggregate state.
C6_StopObservedAfterPull ==
    [][(pc = "check" /\ ~streaming) =>
          /\ pc' = "done"
          /\ ended' = "stop"
          /\ UNCHANGED <<aggregate, collection, prediction, feed_pos, yielded>>
          /\ predict_calls' = predict_calls
          /\ save_calls' = save_calls]_vars

C6_Witness ==
    /\ pc = "done"
    /\ ended = "stop"
    /\ ~streaming
    /\ IsCommentRecord(item)
    /\ Len(yielded) = 2
    /\ predict_calls = 1

\* C7: a failure of the feed, while the stream is opened or iterated, makes
\* stream_comments yield one error record and return: an error record is the
\* last item the generator yields, and the generator returns when it is
\* resumed after it.
C7_ErrorRecordIsLast ==
    /\ [](\A i \in 1..Len(yielded) : IsErrorRecord(yielded[i]) => i = Len(yielded))
    /\ [](raw.kind = "feed_failure" =>
             /\ gen \in {"after_error", "returned"}
             /\ yielded # <<>>
             /\ IsErrorRecord(yielded[Len(yielded)]))
    /\ [](gen = "after_error" =>
             yielded # <<>> /\ IsErrorRecord(yielded[Len(yielded)]))
    /\ [][gen = "after_error" => (gen' = "returned" /\ yielded' = yielded)]_vars

C7_Witness ==
    /\ gen = "returned"
    /\ raw.kind = "feed_failure"
    /\ Len(yielded) = 3
    /\ IsCommentRecord(yielded[1])
    /\ IsErrorRecord(yielded[3])

\* C8: a comment whose fields cannot be read, whatever the exception, is
\* skipped: the generator yields nothing for it and goes on iterating.
C8_MalformedItemIsSkipped ==
    [][(feed_pos' = feed_pos + 1
        /\ raw'.kind \in {"attribute_error", "read_error"}) =>
          (gen' = "iter" /\ yielded' = yielded)]_vars

\* C9: a run whose loop ended because of a failure (the generator yielded
\* nothing, the feed yielded an error record, the processing of an item
\* raised) ends with an error status, never with the status that announces
\* the streaming.
C9_FailureEndsWithErrorStatus ==
    (pc = "done" /\ ended \in {"exhausted", "feed_error", "crashed"}) =>
        status \in ErrorStatuses

\* C10: predict does not raise; for a text that normalises to the empty text
\* it returns {label: Unknown, score: 0.0} and calls no model; when a model
\* raises it returns {label: Error, score: 0.0}; otherwise the result has
\* the four fields label, score, sentiment, sentiment_score.
C10_PredictSentinels ==
    p_result # NoResult =>
        /\ ~p_result.raised
        /\ clean_text(p_text) = <<>> =>
              /\ p_result.value = [label |-> "Unknown", score |-> 0]
              /\ ~p_result.zs_called /\ ~p_result.sent_called
        /\ (clean_text(p_text) # <<>> /\ (~p_zs.ok \/ ~p_sent.ok)) =>
              p_result.value = [label |-> "Error", score |-> 0]
        /\ (clean_text(p_text) # <<>> /\ p_zs.ok /\ p_sent.ok) =>
              /\ IsFullPrediction(p_result.value)
              /\ p_result.value.label \notin SentinelLabels

C10_Witness ==
    /\ p_result # NoResult
    /\ p_text = <<" ", "h", "t">>
    /\ p_zs.ok /\ ~p_sent.ok
    /\ p_result.value = [label |-> "Error", score |-> 0]

StoredAtAsInserted(docs, log) ==
    \A i \in 1..Len(docs) :
        /\ "stored_at" \in DOMAIN docs[i]
        /\ docs[i].stored_at = log[docs[i]._id.oid]

\* the update of the call names the field stored_at
NamesStoredAt(call) ==
    /\ call.fn = "update_document"
    /\ LET op == update_op(call.update, call.is_raw) IN
       \E k \in DOMAIN op \cap UpdateOperators : "stored_at" \in DOMAIN op[k]

\* C11 as stated: after any sequence of insert, update and delete operations
\* every document of the collection has a stored_at field holding the value
\* it received at insertion.
C11_StoredAtNeverChanges ==
    StoredAtAsInserted(collection, insert_log)

\* C11 as amended: save_comment and create_document keep the stored_at of the
\* caller and assign the time of the call only when the document lacks it;
\* an insert, a delete or an update whose patch does not name stored_at
\* leaves every document with the stored_at it received at insertion.
C11_StoredAtSetAtInsertion ==
    [][/\ Len(insert_log') = Len(insert_log) + 1 =>
             insert_log'[Len(insert_log')] =
                 IF "stored_at" \in DOMAIN last_call'.data
                 THEN last_call'.data.stored_at
                 ELSE clock' - 1
       /\ (StoredAtAsInserted(collection, insert_log)
           /\ ~NamesStoredAt(last_call')) =>
             StoredAtAsInserted(collection', insert_log')]_vars

C11_Witness ==
    /\ oid_counter = 2
    /\ Len(collection) = 1
    /\ StoredAtAsInserted(collection, insert_log)
    /\ collection[1].stored_at = 77
    /\ "test" \in DOMAIN collection[1]
    /\ collection[1].test = "updated"
    /\ last_call.fn = "delete_document"
    /\ last_result = [deleted_count |-> 1, acknowledged |-> TRUE]


\* C12: init_db never raises and returns None when no connection string is
\* configured or the server is unreachable; once a call of init_db has
\* returned a database handle, every call made afterwards, by any session,
\* constructs no client and returns that same handle.
C12_LaterCallsReturnFirstHandle ==
    [][\A s \in Sessions :
          (handed_out # NoHandle /\ init_pc[s] = "idle")
          => /\ init_pc'[s] = "idle"
             /\ init_ret'[s] # init_ret[s] => init_ret'[s] = handed_out]_vars

====
